---- MODULE Spec2Model ----
(***************************************************************************)
(* Model of Python/check.py: a Dash page that reads check.txt once while   *)
(* the module is being executed and shows the text in a modal driven by    *)
(* the n_clicks counters of two components.                                *)
(*                                                                         *)
(* Python values: None is the empty tuple and any other value v is <<v>>.  *)
(* A text is a sequence of characters; '' is the empty sequence.           *)
(*                                                                         *)
(* Dispatch: Dash calls update_popup once when a page is loaded and once   *)
(* for every change of one of its Input properties, with the values the    *)
(* page holds at that moment, and writes the two returned values to the    *)
(* Output properties.  A click action below is therefore the increment of  *)
(* n_clicks by the component together with that one call.                  *)
(***************************************************************************)
EXTENDS Integers, Sequences, FiniteSets, TLC

\* ---- bounds -------------------------------------------------------------
MaxClicks == 3

\* two browser pages served by the same process
Sessions == {"s1", "s2"}

\* ---- Python values ------------------------------------------------------
None == <<>>
Some(v) == <<v>>

\* '' (line 39)
EmptyStr == <<>>

\* contents of check.txt that are tried: empty, one line without and with
\* a line end, and line ends of the three conventions
Bytes == {<<>>, <<"a">>, <<"a", "CR", "LF">>, <<"CR", "a">>, <<"a", "LF">>}

\* what is at the path check.txt
Disks == [status : {"ok"}, bytes : Bytes]
           \cup [status : {"missing", "denied"}, bytes : {<<>>}]

VARIABLES
    pc,                 \* statement of the module that runs next
    name,               \* __name__
    disk,               \* the file check.txt
    data_content,       \* module global, line 13
    layout,             \* app.layout: the children of 'popup-content'
    callbacks,          \* callbacks registered with app
    page,               \* page[s]: the page of session s has been loaded
    popup_content,      \* 'popup-content'.children in the page of s
    n_clicks_open,      \* 'open-popup'.n_clicks in the page of s
    n_clicks_close,     \* 'close-popup'.n_clicks in the page of s
    modal_content,      \* 'modal-content'.children in the page of s
    popup_modal_style,  \* 'popup-modal'.style in the page of s
    clicked,            \* history: kinds of click that have happened in s
    lastEvent,          \* history: kind of the most recent click in s
    shown               \* history: the values 'popup-modal'.style took in s

vars == <<pc, name, disk, data_content, layout, callbacks, page,
          popup_content, n_clicks_open, n_clicks_close, modal_content,
          popup_modal_style, clicked, lastEvent, shown>>

appVars == <<name, data_content, layout, callbacks>>
pageVars == <<page, popup_content, n_clicks_open, n_clicks_close,
              modal_content, popup_modal_style, clicked, lastEvent, shown>>

\* ---- read_data_from_file ------------------------------------------------
\* open(file_path, 'r') reads in text mode: "\r\n" and "\r" become "\n"
RECURSIVE translate_newlines(_)
translate_newlines(b) ==
    IF b = <<>> THEN <<>>
    ELSE IF Head(b) = "CR"
         THEN IF Len(b) >= 2 /\ b[2] = "LF"
              THEN <<"LF">> \o translate_newlines(SubSeq(b, 3, Len(b)))
              ELSE <<"LF">> \o translate_newlines(Tail(b))
         ELSE <<Head(b)>> \o translate_newlines(Tail(b))

\* a reader that swallows the I/O error and yields ''
read_data_from_file_swallow(file) ==
    [raised |-> FALSE,
     value  |-> IF file.status = "ok" THEN translate_newlines(file.bytes)
                ELSE EmptyStr]

read_data_from_file(file) ==
    IF file.status = "ok"
    THEN [raised |-> FALSE, value |-> translate_newlines(file.bytes)]
    ELSE [raised |-> TRUE, value |-> EmptyStr]

\* ---- update_popup -------------------------------------------------------
\* truth value of an n_clicks property: None and 0 are false
Truthy(v) == v # None /\ v[1] # 0

Count(v) == IF v = None THEN 0 ELSE v[1]

Block == Some([display |-> "block"])
Hide == Some([display |-> "none"])

\* variants of the guard of line 37
\* visible again as soon as the opens outnumber the closes
update_popup_reopen(n_open, n_close, content) ==
    IF Truthy(n_open) /\ (~Truthy(n_close) \/ Count(n_open) > Count(n_close))
    THEN [children |-> content, style |-> Block]
    ELSE [children |-> Some(EmptyStr), style |-> Hide]

\* `or` in place of `and`
update_popup_or(n_open, n_close, content) ==
    IF Truthy(n_open) \/ ~Truthy(n_close)
    THEN [children |-> content, style |-> Block]
    ELSE [children |-> Some(EmptyStr), style |-> Hide]

\* the test of n_clicks_open left out
update_popup_noopen(n_open, n_close, content) ==
    IF ~Truthy(n_close)
    THEN [children |-> content, style |-> Block]
    ELSE [children |-> Some(EmptyStr), style |-> Hide]

\* the test of n_clicks_close left out
update_popup_noclose(n_open, n_close, content) ==
    IF Truthy(n_open)
    THEN [children |-> content, style |-> Block]
    ELSE [children |-> Some(EmptyStr), style |-> Hide]

update_popup(n_open, n_close, content) ==
    IF Truthy(n_open) /\ ~Truthy(n_close)
    THEN [children |-> content, style |-> Block]
    ELSE [children |-> Some(EmptyStr), style |-> Hide]

\* the component raises its n_clicks by one on a click; None counts as 0
Inc(v) == Some(Count(v) + 1)

\* ---- state after `app = dash.Dash(...)`, before line 13 -----------------
Init ==
    /\ pc = "read"
    /\ name \in {"__main__", "check"}
    /\ disk \in Disks
    /\ data_content = None
    /\ layout = None
    /\ callbacks = {}
    /\ page = [s \in Sessions |-> FALSE]
    /\ popup_content = [s \in Sessions |-> None]
    /\ n_clicks_open = [s \in Sessions |-> None]
    /\ n_clicks_close = [s \in Sessions |-> None]
    /\ modal_content = [s \in Sessions |-> None]
    /\ popup_modal_style = [s \in Sessions |-> None]
    /\ clicked = [s \in Sessions |-> {}]
    /\ lastEvent = [s \in Sessions |-> "none"]
    /\ shown = [s \in Sessions |-> <<>>]

\* ---- module execution ---------------------------------------------------
\* line 13: data_content = read_data_from_file(data_file_path)
ReadData ==
    /\ pc = "read"
    /\ LET r == read_data_from_file(disk)
       IN IF r.raised
          THEN /\ pc' = "crashed"
               /\ data_content' = data_content
          ELSE /\ pc' = "layout"
               /\ data_content' = Some(r.value)
    /\ UNCHANGED <<name, disk, layout, callbacks, pageVars>>

\* lines 15-27: app.layout = html.Div([...])
SetLayout ==
    /\ pc = "layout"
    /\ layout' = data_content
    /\ pc' = "callback"
    /\ UNCHANGED <<name, disk, data_content, callbacks, pageVars>>

\* lines 29-35: @app.callback(...)
RegisterCallback ==
    /\ pc = "callback"
    /\ callbacks' = callbacks \cup {"update_popup"}
    /\ pc' = "main"
    /\ UNCHANGED <<name, disk, data_content, layout, pageVars>>

\* lines 41-42: if __name__ == '__main__': app.run_server(debug=True)
RunServer ==
    /\ pc = "main"
    /\ IF name = "__main__" THEN pc' = "serving" ELSE pc' = "imported"
    /\ UNCHANGED <<appVars, disk, pageVars>>

\* ---- the served page ----------------------------------------------------
\* one call of update_popup for the page of s, with the State value
\* 'popup-content'.children of that page, and the write of its outputs
\* the displays 'popup-modal' went through, one entry per change
Record(trace, old, new) ==
    IF new = old THEN trace ELSE Append(trace, new[1].display)

\* variant: the text is read from check.txt again at every call
Dispatch_reload(s, n_open, n_close, content) ==
    LET out == update_popup(n_open, n_close,
                            Some(read_data_from_file(disk).value))
    IN /\ modal_content' = [modal_content EXCEPT ![s] = out.children]
       /\ popup_modal_style' = [popup_modal_style EXCEPT ![s] = out.style]
       /\ shown' = [shown EXCEPT ![s] = Record(@, popup_modal_style[s],
                                                out.style)]

\* variant: the call gets the counters as they were before the click
Dispatch_stale(s, n_open, n_close, content) ==
    LET out == update_popup(n_clicks_open[s], n_clicks_close[s], content)
    IN /\ modal_content' = [modal_content EXCEPT ![s] = out.children]
       /\ popup_modal_style' = [popup_modal_style EXCEPT ![s] = out.style]
       /\ shown' = [shown EXCEPT ![s] = Record(@, popup_modal_style[s],
                                                out.style)]

Dispatch(s, n_open, n_close, content) ==
    LET out == update_popup(n_open, n_close, content)
    IN /\ modal_content' = [modal_content EXCEPT ![s] = out.children]
       /\ popup_modal_style' = [popup_modal_style EXCEPT ![s] = out.style]
       /\ shown' = [shown EXCEPT ![s] = Record(@, popup_modal_style[s],
                                                out.style)]

\* the browser fetches the layout; Dash makes the initial call
PageLoad(s) ==
    /\ pc = "serving"
    /\ "update_popup" \in callbacks
    /\ ~page[s]
    /\ page' = [page EXCEPT ![s] = TRUE]
    /\ popup_content' = [popup_content EXCEPT ![s] = layout]
    /\ Dispatch(s, n_clicks_open[s], n_clicks_close[s], layout)
    /\ UNCHANGED <<pc, appVars, disk, n_clicks_open, n_clicks_close,
                   clicked, lastEvent>>

\* variant: an open-click also clears the close counter
OpenClick_reset(s) ==
    /\ pc = "serving"
    /\ page[s]
    /\ Count(n_clicks_open[s]) < MaxClicks
    /\ n_clicks_open' = [n_clicks_open EXCEPT ![s] = Inc(@)]
    /\ n_clicks_close' = [n_clicks_close EXCEPT ![s] = None]
    /\ clicked' = [clicked EXCEPT ![s] = @ \cup {"open"}]
    /\ lastEvent' = [lastEvent EXCEPT ![s] = "open"]
    /\ Dispatch(s, n_clicks_open'[s], n_clicks_close'[s], popup_content[s])
    /\ UNCHANGED <<pc, appVars, disk, page, popup_content>>

\* a click on 'open-popup'
OpenClick(s) ==
    /\ pc = "serving"
    /\ page[s]
    /\ Count(n_clicks_open[s]) < MaxClicks
    /\ n_clicks_open' = [n_clicks_open EXCEPT ![s] = Inc(@)]
    /\ clicked' = [clicked EXCEPT ![s] = @ \cup {"open"}]
    /\ lastEvent' = [lastEvent EXCEPT ![s] = "open"]
    /\ Dispatch(s, n_clicks_open'[s], n_clicks_close[s], popup_content[s])
    /\ UNCHANGED <<pc, appVars, disk, page, popup_content, n_clicks_close>>

\* a click on 'close-popup'
CloseClick(s) ==
    /\ pc = "serving"
    /\ page[s]
    /\ Count(n_clicks_close[s]) < MaxClicks
    /\ n_clicks_close' = [n_clicks_close EXCEPT ![s] = Inc(@)]
    /\ clicked' = [clicked EXCEPT ![s] = @ \cup {"close"}]
    /\ lastEvent' = [lastEvent EXCEPT ![s] = "close"]
    /\ Dispatch(s, n_clicks_open[s], n_clicks_close'[s], popup_content[s])
    /\ UNCHANGED <<pc, appVars, disk, page, popup_content, n_clicks_open>>

\* ---- environment --------------------------------------------------------
\* check.txt is replaced, removed or made unreadable while the server runs
RewriteFile ==
    /\ pc = "serving"
    /\ \E d \in Disks : d # disk /\ disk' = d
    /\ UNCHANGED <<pc, appVars, pageVars>>

Next ==
    \/ ReadData
    \/ SetLayout
    \/ RegisterCallback
    \/ RunServer
    \/ \E s \in Sessions : PageLoad(s)
    \/ \E s \in Sessions : OpenClick(s)
    \/ \E s \in Sessions : CloseClick(s)
    \/ RewriteFile

Spec == Init /\ [][Next]_vars

\* ---- properties ---------------------------------------------------------
Visible(s) == popup_modal_style[s] = Block
Hidden(s) == popup_modal_style[s] = Hide
ShownText(s) == modal_content[s]
Opens(s) == Count(n_clicks_open[s])
Closes(s) == Count(n_clicks_close[s])

\* C1: one-directional latch.  A close-click leaves the modal Hidden with
\* text '', and from any state with closes >= 1 every step (whatever clicks
\* follow) ends with closes >= 1, the modal Hidden and the text ''.
C1_Latch ==
    [][\A s \in Sessions :
         (Closes(s) >= 1 \/ n_clicks_close'[s] # n_clicks_close[s])
            => /\ Closes(s)' >= 1
               /\ Hidden(s)'
               /\ ShownText(s)' = Some(EmptyStr)]_vars

\* opens = 3, closes = 1, the last click an open-click, and still Hidden
C1_Witness ==
    \E s \in Sessions :
        /\ Closes(s) = 1 /\ Opens(s) = MaxClicks
        /\ lastEvent[s] = "open"
        /\ Hidden(s) /\ ShownText(s) = Some(EmptyStr)

\* C2: in every loaded page the modal is Visible iff opens is truthy and
\* closes is falsy, and it is Hidden in every other combination.
C2_VisibleIff ==
    \A s \in Sessions :
        page[s] =>
            /\ Visible(s) <=> (Truthy(n_clicks_open[s])
                                /\ ~Truthy(n_clicks_close[s]))
            /\ ~Visible(s) => Hidden(s)

\* one page Visible, the other Hidden with opens unset and closes >= 1
C2_Witness ==
    \E s, t \in Sessions :
        /\ Visible(s) /\ Opens(s) >= 1 /\ n_clicks_close[s] = None
        /\ Hidden(t) /\ n_clicks_open[t] = None /\ Closes(t) >= 1

\* C3 as stated: the modal is Visible iff an open-click has occurred and
\* the last click is an open-click.
C3_Original ==
    \A s \in Sessions :
        page[s] =>
            (Visible(s) <=> ("open" \in clicked[s] /\ lastEvent[s] = "open"))

\* C3 amended: the modal is Visible iff an open-click has occurred and no
\* close-click has ever occurred.
C3_Amended ==
    \A s \in Sessions :
        page[s] =>
            (Visible(s) <=> ("open" \in clicked[s]
                              /\ "close" \notin clicked[s]))

\* the last click is an open-click that follows a close-click: Hidden
C3_Witness ==
    \E s \in Sessions :
        /\ page[s] /\ lastEvent[s] = "open" /\ "close" \in clicked[s]
        /\ ~Visible(s)

\* C4: text and visibility agree.  A Visible modal shows exactly the text
\* read at startup (data_content, which every page holds unchanged in
\* 'popup-content'), a Hidden modal shows ''.
C4_TextAgrees ==
    \A s \in Sessions :
        page[s] =>
            /\ Visible(s) \/ Hidden(s)
            /\ popup_content[s] = data_content
            /\ data_content # None
            /\ Visible(s) => ShownText(s) = data_content
            /\ Hidden(s) => ShownText(s) = Some(EmptyStr)

\* a Visible modal with a non-empty text while check.txt now holds another
\* text, and a Hidden one next to it
C4_Witness ==
    \E s, t \in Sessions :
        /\ Visible(s) /\ ShownText(s) # Some(EmptyStr)
        /\ disk.status = "ok"
        /\ Some(translate_newlines(disk.bytes)) # data_content
        /\ Hidden(t) /\ Opens(t) >= 1

\* C5: a loaded page that has seen no click (both n_clicks unset, the
\* state the call at page load leaves) is Hidden with text ''.
C5_InitialHidden ==
    \A s \in Sessions :
        (page[s] /\ n_clicks_open[s] = None /\ n_clicks_close[s] = None)
            => (Hidden(s) /\ ShownText(s) = Some(EmptyStr))

C5_Witness ==
    \E s \in Sessions :
        /\ page[s] /\ clicked[s] = {} /\ lastEvent[s] = "none"
        /\ n_clicks_open[s] = None /\ n_clicks_close[s] = None
        /\ data_content # None /\ data_content # Some(EmptyStr)

\* C6: a failed read of check.txt is fatal.  Execution never gets past
\* line 13 with a file that cannot be read, and after the failure nothing
\* is installed; the layout, the callback, the server and every page exist
\* only with data_content loaded.
C6_StartupFatal ==
    /\ (pc # "serving" /\ disk.status # "ok") => pc \in {"read", "crashed"}
    /\ pc = "crashed" =>
           /\ data_content = None /\ layout = None /\ callbacks = {}
           /\ \A s \in Sessions : ~page[s]
    /\ (pc = "serving" \/ layout # None \/ callbacks # {}
          \/ \E s \in Sessions : page[s])
         => (data_content # None /\ pc # "crashed")

C6_Witness ==
    /\ pc = "crashed" /\ disk.status = "missing" /\ name = "__main__"

C9_CountersMonotone ==
    [][\A s \in Sessions :
         /\ ~page[s] => (n_clicks_open[s] = None /\ n_clicks_close[s] = None)
         /\ Opens(s)' >= Opens(s)
         /\ Closes(s)' >= Closes(s)
         /\ n_clicks_open'[s] # n_clicks_open[s]
               => /\ n_clicks_open'[s] = Some(Opens(s) + 1)
                  /\ n_clicks_close'[s] = n_clicks_close[s]
         /\ n_clicks_close'[s] # n_clicks_close[s]
               => /\ n_clicks_close'[s] = Some(Closes(s) + 1)
                  /\ n_clicks_open'[s] = n_clicks_open[s]
         /\ (modal_content'[s] # modal_content[s] /\ page[s])
               => (n_clicks_open'[s] # n_clicks_open[s]
                     \/ n_clicks_close'[s] # n_clicks_close[s])]_vars

C9_Witness ==
    \E s \in Sessions :
        /\ Opens(s) >= 2 /\ Closes(s) >= 2 /\ lastEvent[s] = "open"

\* C10: an open-click never hides a Visible modal, a close-click never
\* shows a Hidden one, the modal goes from Hidden to Visible only on the
\* first open-click of a page that has seen no close-click, it leaves
\* Visible only on a close-click, and it is never Visible once a click of
\* either kind has followed a close-click: the displays a page goes through
\* are a prefix of none, block, none.
C10_TraceShape ==
    [][\A s \in Sessions :
         /\ (Visible(s) /\ n_clicks_open'[s] # n_clicks_open[s])
               => Visible(s)'
         /\ (Hidden(s) /\ n_clicks_close'[s] # n_clicks_close[s])
               => Hidden(s)'
         /\ (Hidden(s) /\ Visible(s)')
               => /\ clicked[s] = {}
                  /\ n_clicks_open[s] = None
                  /\ n_clicks_open'[s] = Some(1)
         /\ (Visible(s) /\ Hidden(s)')
               => n_clicks_close'[s] # n_clicks_close[s]
         /\ clicked[s] \subseteq clicked'[s]
         /\ "close" \in clicked[s] => ~Visible(s)'
         /\ shown'[s] \in {<<>>, <<"none">>, <<"none", "block">>,
                           <<"none", "block", "none">>}]_vars

\* a page that was shown, then closed, then clicked open again
C10_Witness ==
    \E s \in Sessions :
        /\ Hidden(s) /\ shown[s] = <<"none", "block", "none">>
        /\ Opens(s) >= 2 /\ lastEvent[s] = "open"

====
